---- MODULE Spec2Model ----
(***************************************************************************)
(* Verification model of akaragou/Gleason: prepare_tfrecords.py (labelling *)
(* loop, class-ratio computation) and tfrecord.py (record codec, parallel  *)
(* container build, decode/augment input pipeline).                        *)
(*                                                                         *)
(* Python 2 byte strings are sequences of byte values (0..255), so that    *)
(* split, lower and encode are computed, not assumed.                      *)
(***************************************************************************)
EXTENDS Integers, Sequences, FiniteSets, TLC

VARIABLES
  \* ---- prepare_tfrecords.py : build_tfrecords / calculate_class_ratios
  fn,               \* which function of prepare_tfrecords.py is running
  files,            \* result of glob.glob(...): list of byte strings
  idx,              \* number of loop iterations of `for img in files` done
  target_labels,    \* build_tfrecords: list of labels appended so far
  targe_label_dic,  \* calculate_class_ratios: tally per label 0..3
  class_weights,    \* calculate_class_ratios: list of rationals <<num, den>>
  saved,            \* content of <dataset>_class_weights.npy, None if absent
  call_args,        \* arguments build_tfrecords passed to create_tf_record
  pc_p,             \* control point of the running function
  err_p,            \* exception that left the function, None if none
  \* ---- tfrecord.py : create_tf_record
  tfrecords_filename, \* argument: path of the container
  file_pointers,    \* argument: list of image paths
  labels,           \* argument target_labels: list of labels
  futures,          \* list of futures, in submission order
  yielded,          \* indices as_completed(futures) has yielded, in order
  i_w,              \* number of iterations of the writing loop done
  container,        \* records handed to the TFRecordWriter, in order
  writer_closed,    \* whether the TFRecordWriter has been closed
  meta_files,       \* the .npz files written by np.savez, in order
  pc_b,             \* control point of create_tf_record
  \* ---- tfrecord.py : encode, and the decoding head of read_and_decode
  c_content,        \* what is stored at img_path
  c_path,           \* argument img_path of encode
  c_label,          \* argument target_label of encode
  c_dims,           \* img_dims declared to read_and_decode
  c_result,         \* what encode returned or raised
  c_decoded,        \* what decoding the record gave
  pc_c,             \* control point of the codec round trip
  \* ---- tfrecord.py : read_and_decode, the graph it builds being run
  r_records,        \* the records of the container behind filename_queue
  r_pos,            \* number of records the reader has consumed
  augmentations_dic, \* argument: the augmentation toggles
  shuffle,          \* argument
  size_of_batch,    \* argument
  img_dims,         \* argument
  model_dims,       \* argument
  queue,            \* examples waiting in the batching queue
  queue_closed,     \* the reader hit the end of the input
  returned,         \* the batches (img, t_l, f_p) handed out so far
  pc_r,             \* control point of the running graph
  err_r             \* error that ended the run, None if none

prepVars == <<fn, files, idx, target_labels, targe_label_dic, class_weights,
              saved, call_args, pc_p, err_p>>

buildVars == <<tfrecords_filename, file_pointers, labels, futures, yielded,
               i_w, container, writer_closed, meta_files, pc_b>>

codecVars == <<c_content, c_path, c_label, c_dims, c_result, c_decoded, pc_c>>

readVars == <<r_records, r_pos, augmentations_dic, shuffle, size_of_batch, img_dims,
              model_dims, queue, queue_closed, returned, pc_r, err_r>>

vars == <<prepVars, buildVars, codecVars, readVars>>

notPrep  == <<buildVars, codecVars, readVars>>
notBuild == <<prepVars, codecVars, readVars>>
notCodec == <<prepVars, buildVars, readVars>>
notRead  == <<prepVars, buildVars, codecVars>>

\* Python's None for a list-valued variable, and for the exception slot.
None == <<>>
NoError == "None"

\* ------------------------------------------------------------------------
\* Bounds of the model
\* ------------------------------------------------------------------------
MaxFiles == 5
\* longest argument list of create_tf_record
MaxItems == 3
\* largest height and width of an image of the codec round trip
MaxDim == 2
\* most records in the container read_and_decode reads
MaxRecords == 3
\* largest size_of_batch
MaxBatch == 2

\* ------------------------------------------------------------------------
\* Byte-string helpers (Python 2 str methods)
\* ------------------------------------------------------------------------
Last(s) == s[Len(s)]

RECURSIVE SplitFrom(_, _, _, _, _)
\* str.split(sep) for a one-byte separator, reading s from position i: cur
\* is the piece being read, acc the pieces already closed; empty pieces are
\* kept.
SplitFrom(s, sep, i, cur, acc) ==
  IF i > Len(s) THEN Append(acc, cur)
  ELSE IF s[i] = sep THEN SplitFrom(s, sep, i + 1, <<>>, Append(acc, cur))
  ELSE SplitFrom(s, sep, i + 1, Append(cur, s[i]), acc)

Split(s, sep) == SplitFrom(s, sep, 1, <<>>, <<>>)

\* str.lower(): ASCII upper-case letters 'A'..'Z' move to 'a'..'z'.
Lower(s) == [i \in DOMAIN s |-> IF s[i] \in 65..90 THEN s[i] + 32 ELSE s[i]]

\* Byte strings the labelling code compares against.
gleason_5 == <<103, 108, 101, 97, 115, 111, 110, 95, 53>>
gleason_4 == <<103, 108, 101, 97, 115, 111, 110, 95, 52>>
gleason_3 == <<103, 108, 101, 97, 115, 111, 110, 95, 51>>

\* ------------------------------------------------------------------------
\* Labelling code shared by build_tfrecords and calculate_class_ratios
\* ------------------------------------------------------------------------
\* file_name = img.split('/')[-1].split('_')
FileNameTokens(img) == Split(Last(Split(img, 47)), 95)

\* file_name[1] raises IndexError when the base name holds no underscore.
RaisesIndexError(img) == Len(FileNameTokens(img)) < 2

\* Mutant of ClassName: the lower() call is left out.
ClassName_NoLower(img) ==
  LET file_name == FileNameTokens(img)
  IN  file_name[1] \o <<95>> \o file_name[2]

\* class_name = file_name[0].lower() + '_' + file_name[1]
ClassName(img) ==
  LET file_name == FileNameTokens(img)
  IN  Lower(file_name[1]) \o <<95>> \o file_name[2]

\* the if / elif / else chain
LabelOfClassName(class_name) ==
  IF class_name = gleason_5 THEN 3
  ELSE IF class_name = gleason_4 THEN 2
  ELSE IF class_name = gleason_3 THEN 1
  ELSE 0

\* ------------------------------------------------------------------------
\* Inputs: the directory listing
\* ------------------------------------------------------------------------
\* os.path.join(main_data_dir, dataset) + '/': here "/d_5/tr/".  The
\* directory holds an underscore and a class digit so that taking the base
\* name matters.
DirPrefix == <<47, 100, 95, 53, 47, 116, 114, 47>>

PngExt == <<46, 112, 110, 103>>

\* Base names of the files the directory may hold.
BaseNames ==
  { <<71, 108, 101, 97, 115, 111, 110, 95, 53, 95, 97>>,    \* Gleason_5_a
    <<71, 76, 69, 65, 83, 79, 78, 95, 52, 95, 98>>,         \* GLEASON_4_b
    <<103, 108, 101, 97, 115, 111, 110, 95, 51, 95, 99>>,   \* gleason_3_c
    <<98, 101, 110, 105, 103, 110, 95, 49, 95, 100>>,       \* benign_1_d
    <<103, 108, 101, 97, 115, 111, 110, 95, 53>>,           \* gleason_5
    <<103, 76, 101, 65, 115, 79, 110, 95, 51, 95, 101>>,    \* gLeAsOn_3_e
    <<110, 111, 110, 101>> }                                \* none

FileNames == { DirPrefix \o b \o PngExt : b \in BaseNames }

Range(s) == { s[i] : i \in DOMAIN s }


RECURSIVE Listings(_, _)
\* The directory listings of at most n files out of S: glob.glob returns
\* each file of the directory once, in an order the file system chooses.
Listings(S, n) ==
  IF n = 0 THEN { <<>> }
  ELSE LET shorter == Listings(S, n - 1)
       IN  shorter \cup UNION { { Append(s, x) : x \in S \ Range(s) } :
                                   s \in { t \in shorter : Len(t) = n - 1 } }

\* ------------------------------------------------------------------------
\* Rational arithmetic for `from __future__ import division`
\* ------------------------------------------------------------------------
\* A rational is <<numerator, denominator>> with denominator > 0.
RDiv(a, b) == <<a[1] * b[2], a[2] * b[1]>>
RAdd(a, b) == <<a[1] * b[2] + b[1] * a[2], a[2] * b[2]>>
REq(a, b)  == a[1] * b[2] = b[1] * a[2]
RInt(n)    == <<n, 1>>

RECURSIVE RSum(_)
\* sum(list) over a list of rationals
RSum(list) == IF list = <<>> THEN RInt(0) ELSE RAdd(Head(list), RSum(Tail(list)))

RECURSIVE ISum(_)
\* sum(list) over a list of integers
ISum(list) == IF list = <<>> THEN 0 ELSE Head(list) + ISum(Tail(list))

\* values = [targe_label_dic[k] for k in range(4)]
Values(dic) == [k \in 1..4 |-> dic[k - 1]]

\* f_i = [sum(values)/v for v in values]
F_i(values) == [k \in 1..4 |-> RDiv(RInt(ISum(values)), RInt(values[k]))]

\* Mutant of ClassWeights: the inverse frequencies are not normalised.
ClassWeights_Unnormalised(values) == F_i(values)

\* class_weights = [f/sum(f_i) for f in f_i]
ClassWeights(values) ==
  LET f_i == F_i(values)
  IN  [k \in 1..4 |-> RDiv(f_i[k], RSum(f_i))]

\* ------------------------------------------------------------------------
\* tfrecord.py : the record codec
\* ------------------------------------------------------------------------
\* What Image.open / np.array find at a path: ok = FALSE for a file PIL
\* cannot read; otherwise an array of h x w x c values stored row-major in
\* data, with c = 0 standing for a 2-D (single band) array.
Unreadable == [ok |-> FALSE, h |-> 0, w |-> 0, c |-> 0, data |-> <<>>]

Min(a, b) == IF a < b THEN a ELSE b

\* Mutant of FirstThreeChannels: the slice is forgotten, every channel of
\* the array is kept.
FirstThreeChannels_NoSlice(img) == img.data

\* img[:,:,:3] on an array with c >= 1 channels: the first min(3, c)
\* channels of every pixel, row-major.
FirstThreeChannels(img) ==
  LET k == Min(3, img.c)
  IN  [n \in 1..(img.h * img.w * k) |->
         img.data[((n - 1) \div k) * img.c + ((n - 1) % k) + 1]]

\* .astype(np.float32).astype(np.uint8) on non-negative integers below
\* 2^24 (exact in float32): the value modulo 256.
AsUint8(values) == [n \in DOMAIN values |-> values[n] % 256]

\* Python 2: str.encode('utf-8') first decodes the byte string as ASCII.
IsAscii(bytes) == \A n \in DOMAIN bytes : bytes[n] < 128

RECURSIVE Utf8(_, _)
\* UTF-8 of the code points cps[n..] (code points below 2048).
Utf8(cps, n) ==
  IF n > Len(cps) THEN <<>>
  ELSE (IF cps[n] < 128 THEN <<cps[n]>>
        ELSE <<192 + (cps[n] \div 64), 128 + (cps[n] % 64)>>) \o Utf8(cps, n + 1)

\* img_path.encode('utf-8') for an ASCII byte string
PathRaw(img_path) == Utf8(img_path, 1)

_bytes_feature(name, value) == [name |-> name, kind |-> "bytes_list", value |-> <<value>>]
_int64_feature(name, value) == [name |-> name, kind |-> "int64_list", value |-> <<value>>]

NoExample == <<>>

\* encode(img_path, target_label), given what is stored at img_path: the
\* exception it raises (NoError if none) and the tf.train.Example built.
encode(content, img_path, target_label) ==
  IF ~content.ok THEN [exc |-> "IOError", example |-> NoExample]
  ELSE IF content.c = 0 THEN [exc |-> "IndexError", example |-> NoExample]
  ELSE IF ~IsAscii(img_path) THEN [exc |-> "UnicodeDecodeError", example |-> NoExample]
  ELSE [exc |-> NoError,
        example |-> << _bytes_feature("image_raw", AsUint8(FirstThreeChannels(content))),
                       _bytes_feature("file_path", PathRaw(img_path)),
                       _int64_feature("target_label", target_label) >>]

\* tf.parse_single_example with a FixedLenFeature([], dtype): the single
\* value stored under the name, if a feature of that name and kind exists.
HasFeature(example, name, kind) ==
  \E n \in DOMAIN example : example[n].name = name /\ example[n].kind = kind

Feature(example, name) ==
  example[CHOOSE n \in DOMAIN example : example[n].name = name].value[1]

\* tf.cast(int64, tf.int32) keeps every value of the 32-bit range, and the
\* integers of this model are within that range.
CastInt32(v) == v

\* Lines 223-238 of read_and_decode: parse one record, decode_raw to
\* uint8, cast the label, reshape to dims (the argument img_dims).
\* tf.reshape fails when the number of bytes differs from their product.
decode(example, dims) ==
  IF ~( /\ HasFeature(example, "image_raw", "bytes_list")
        /\ HasFeature(example, "file_path", "bytes_list")
        /\ HasFeature(example, "target_label", "int64_list") )
  THEN [exc |-> "InvalidArgumentError: parse", shape |-> <<>>, image |-> <<>>,
        target_label |-> 0, file_path |-> <<>>]
  ELSE LET raw == Feature(example, "image_raw")
       IN  IF Len(raw) # dims[1] * dims[2] * dims[3]
           THEN [exc |-> "InvalidArgumentError: reshape", shape |-> <<>>, image |-> <<>>,
                 target_label |-> 0, file_path |-> <<>>]
           ELSE [exc |-> NoError, shape |-> dims, image |-> raw,
                 target_label |-> CastInt32(Feature(example, "target_label")),
                 file_path |-> Feature(example, "file_path")]

\* ------------------------------------------------------------------------
\* tfrecord.py : tfrecord2metafilename
\* ------------------------------------------------------------------------
RECURSIVE LastIndexOf(_, _, _)
\* str.rfind(ch) looking at s[1..n]; 0 when absent
LastIndexOf(s, ch, n) ==
  IF n = 0 THEN 0 ELSE IF s[n] = ch THEN n ELSE LastIndexOf(s, ch, n - 1)

RECURSIVE FirstNonDot(_, _)
\* index of the first byte at or after n that is not '.', Len(s) + 1 if none
FirstNonDot(s, n) ==
  IF n > Len(s) THEN n ELSE IF s[n] # 46 THEN n ELSE FirstNonDot(s, n + 1)

\* os.path.splitext(p)[0]: cut at the last '.' of the last path component,
\* unless that component holds nothing but dots before it.
SplitExtBase(path) ==
  LET sep == LastIndexOf(path, 47, Len(path))
      dot == LastIndexOf(path, 46, Len(path))
  IN  IF dot > sep /\ FirstNonDot(path, sep + 1) < dot
      THEN SubSeq(path, 1, dot - 1)
      ELSE path

\* base + '_meta.npz'
tfrecord2metafilename(tfrecord_filename) ==
  SplitExtBase(tfrecord_filename) \o <<95, 109, 101, 116, 97, 46, 110, 112, 122>>

\* ------------------------------------------------------------------------
\* Each specification below runs one entry point; the state of the other
\* entry points stays as it is before they are called.
\* ------------------------------------------------------------------------
PrepIdle ==
  /\ fn = "none" /\ files = <<>> /\ idx = 0 /\ target_labels = <<>>
  /\ targe_label_dic = [k \in 0..3 |-> 0]
  /\ class_weights = None /\ saved = None /\ call_args = None
  /\ pc_p = "idle" /\ err_p = NoError

BuildIdle ==
  /\ tfrecords_filename = <<>> /\ file_pointers = <<>> /\ labels = <<>>
  /\ futures = <<>> /\ yielded = <<>> /\ i_w = 0 /\ container = <<>>
  /\ writer_closed = FALSE /\ meta_files = <<>> /\ pc_b = "idle"

NoDecoded == [exc |-> "unset", shape |-> <<>>, image |-> <<>>,
              target_label |-> 0, file_path |-> <<>>]

CodecIdle ==
  /\ c_content = Unreadable /\ c_path = <<>> /\ c_label = 0
  /\ c_dims = <<0, 0, 0>> /\ c_result = [exc |-> "unset", example |-> NoExample]
  /\ c_decoded = NoDecoded /\ pc_c = "idle"

AugmentationKeys ==
  {"rand_crop", "rand_flip_left_right", "rand_flip_top_bottom", "rand_rotate",
   "warp", "grayscale"}

ReadIdle ==
  /\ r_records = <<>> /\ r_pos = 0
  /\ augmentations_dic = [k \in AugmentationKeys |-> FALSE]
  /\ shuffle = FALSE /\ size_of_batch = 0
  /\ img_dims = <<0, 0, 0>> /\ model_dims = <<0, 0, 0>>
  /\ queue = <<>> /\ queue_closed = FALSE /\ returned = <<>>
  /\ pc_r = "idle" /\ err_r = NoError

\* ------------------------------------------------------------------------
\* prepare_tfrecords.py as a state machine
\* ------------------------------------------------------------------------
PrepInit ==
  /\ fn \in {"build_tfrecords", "calculate_class_ratios"}
  /\ files \in Listings(FileNames, MaxFiles)
  /\ idx = 0
  /\ target_labels = <<>>
  /\ targe_label_dic = [k \in 0..3 |-> 0]
  /\ class_weights = None
  /\ saved = None
  /\ call_args = None
  /\ pc_p = "loop"
  /\ err_p = NoError
  /\ BuildIdle /\ CodecIdle /\ ReadIdle

\* One iteration of `for img in files` in build_tfrecords (lines 84-96).
LabelStep ==
  /\ fn = "build_tfrecords" /\ pc_p = "loop" /\ idx < Len(files)
  /\ LET img == files[idx + 1]
     IN  IF RaisesIndexError(img)
         THEN /\ pc_p' = "raised" /\ err_p' = "IndexError"
              /\ UNCHANGED <<idx, target_labels>>
         ELSE /\ target_labels' = Append(target_labels, LabelOfClassName(ClassName(img)))
              /\ idx' = idx + 1
              /\ UNCHANGED <<pc_p, err_p>>
  /\ UNCHANGED <<fn, files, targe_label_dic, class_weights, saved, call_args>>
  /\ UNCHANGED notPrep

\* Line 98: the call of create_tf_record once the loop is over.
CallCreateTfRecord ==
  /\ fn = "build_tfrecords" /\ pc_p = "loop" /\ idx = Len(files)
  /\ call_args' = <<files, target_labels>>
  /\ pc_p' = "done"
  /\ UNCHANGED <<fn, files, idx, target_labels, targe_label_dic, class_weights, saved, err_p>>
  /\ UNCHANGED notPrep

\* One iteration of `for img in files` in calculate_class_ratios (53-65).
TallyStep ==
  /\ fn = "calculate_class_ratios" /\ pc_p = "loop" /\ idx < Len(files)
  /\ LET img == files[idx + 1]
     IN  IF RaisesIndexError(img)
         THEN /\ pc_p' = "raised" /\ err_p' = "IndexError"
              /\ UNCHANGED <<idx, targe_label_dic>>
         ELSE /\ LET l == LabelOfClassName(ClassName(img))
                 IN  targe_label_dic' = [targe_label_dic EXCEPT ![l] = @ + 1]
              /\ idx' = idx + 1
              /\ UNCHANGED <<pc_p, err_p>>
  /\ UNCHANGED <<fn, files, target_labels, class_weights, saved, call_args>>
  /\ UNCHANGED notPrep

\* Lines 67-71: values, f_i, class_weights.  sum(values)/v raises
\* ZeroDivisionError for v = 0 (true division of Python ints).
ComputeWeights ==
  /\ fn = "calculate_class_ratios" /\ pc_p = "loop" /\ idx = Len(files)
  /\ LET values == Values(targe_label_dic)
     IN  IF \E k \in 1..4 : values[k] = 0
         THEN /\ pc_p' = "raised" /\ err_p' = "ZeroDivisionError"
              /\ UNCHANGED class_weights
         ELSE /\ class_weights' = ClassWeights(values)
              /\ pc_p' = "save"
              /\ UNCHANGED err_p
  /\ UNCHANGED <<fn, files, idx, target_labels, targe_label_dic, saved, call_args>>
  /\ UNCHANGED notPrep

\* Line 72: np.save(dataset + '_class_weights.npy', class_weights)
SaveWeights ==
  /\ fn = "calculate_class_ratios" /\ pc_p = "save"
  /\ saved' = class_weights
  /\ pc_p' = "done"
  /\ UNCHANGED <<fn, files, idx, target_labels, targe_label_dic, class_weights, call_args, err_p>>
  /\ UNCHANGED notPrep

PrepNext == LabelStep \/ CallCreateTfRecord \/ TallyStep \/ ComputeWeights \/ SaveWeights

SpecPrepare == PrepInit /\ [][PrepNext]_vars

\* ------------------------------------------------------------------------
\* tfrecord.py : create_tf_record as a state machine
\* ------------------------------------------------------------------------
\* ProcessPoolExecutor(32)
MaxWorkers == 32

\* The files create_tf_record may be pointed at: "a" a 1 x 2 RGB image, "b"
\* a 1 x 1 RGBA image, "x" a file PIL cannot read.
BuildPaths == { <<97>>, <<98>>, <<120>> }

Disk(path) ==
  CASE path = <<97>> -> [ok |-> TRUE, h |-> 1, w |-> 2, c |-> 3,
                         data |-> <<10, 20, 30, 40, 50, 60>>]
    [] path = <<98>> -> [ok |-> TRUE, h |-> 1, w |-> 1, c |-> 4,
                         data |-> <<70, 80, 90, 255>>]
    [] OTHER -> Unreadable

BuildLabels == {1, 3}

\* "t.tfrecords" shortened to "t.r", and a name without extension
ContainerNames == { <<116, 46, 114>>, <<100, 46, 120, 47, 116>> }

RECURSIVE SeqsOfLen(_, _)
\* all sequences over S of length n
SeqsOfLen(S, n) ==
  IF n = 0 THEN { <<>> }
  ELSE { Append(s, x) : s \in SeqsOfLen(S, n - 1), x \in S }

NoResult == [exc |-> "unset", example |-> NoExample]

Finished(i) == i <= Len(futures) /\ futures[i].st = "finished"

\* Line 170 has run: the writer is open, nothing is submitted yet.
BuildInit ==
  /\ PrepIdle /\ CodecIdle /\ ReadIdle
  /\ tfrecords_filename \in ContainerNames
  /\ \E n \in 0..MaxItems :
       /\ file_pointers \in SeqsOfLen(BuildPaths, n)
       /\ labels \in SeqsOfLen(BuildLabels, n)
  /\ futures = <<>>
  /\ yielded = <<>>
  /\ i_w = 0
  /\ container = <<>>
  /\ writer_closed = FALSE
  /\ meta_files = <<>>
  /\ pc_b = "submit"

\* Line 175: executor.submit(encode, f, t_l) for the next pair.
Submit ==
  /\ pc_b = "submit" /\ Len(futures) < Len(file_pointers)
  /\ futures' = Append(futures, [st |-> "pending", res |-> NoResult])
  /\ UNCHANGED <<tfrecords_filename, file_pointers, labels, yielded, i_w, container,
                 writer_closed, meta_files, pc_b>>
  /\ UNCHANGED notBuild

\* Line 175: the list comprehension is exhausted.
SubmitEnd ==
  /\ pc_b = "submit" /\ Len(futures) = Len(file_pointers)
  /\ pc_b' = "as_completed"
  /\ UNCHANGED <<tfrecords_filename, file_pointers, labels, futures, yielded, i_w,
                 container, writer_closed, meta_files>>
  /\ UNCHANGED notBuild

\* A worker process of the pool takes a submitted call.
StartTask(i) ==
  /\ i \in DOMAIN futures /\ futures[i].st = "pending"
  /\ Cardinality({j \in DOMAIN futures : futures[j].st = "running"}) < MaxWorkers
  /\ futures' = [futures EXCEPT ![i].st = "running"]
  /\ UNCHANGED <<tfrecords_filename, file_pointers, labels, yielded, i_w, container,
                 writer_closed, meta_files, pc_b>>
  /\ UNCHANGED notBuild

\* The worker returns from encode(f, t_l), or encode raised: the future
\* holds the example or the exception.
FinishTask(i) ==
  /\ i \in DOMAIN futures /\ futures[i].st = "running"
  /\ futures' = [futures EXCEPT
                   ![i] = [st |-> "finished",
                           res |-> encode(Disk(file_pointers[i]), file_pointers[i], labels[i])]]
  /\ UNCHANGED <<tfrecords_filename, file_pointers, labels, yielded, i_w, container,
                 writer_closed, meta_files, pc_b>>
  /\ UNCHANGED notBuild

\* Lines 184-185: as_completed(futures) yields a finished future.
AsCompletedYield(i) ==
  /\ pc_b = "as_completed" /\ Finished(i) /\ i \notin Range(yielded)
  /\ yielded' = Append(yielded, i)
  /\ UNCHANGED <<tfrecords_filename, file_pointers, labels, futures, i_w, container,
                 writer_closed, meta_files, pc_b>>
  /\ UNCHANGED notBuild

\* Line 184: as_completed is exhausted once every future was yielded.
AsCompletedEnd ==
  /\ pc_b = "as_completed" /\ Range(yielded) = DOMAIN futures
  /\ pc_b' = "write"
  /\ UNCHANGED <<tfrecords_filename, file_pointers, labels, futures, yielded, i_w,
                 container, writer_closed, meta_files>>
  /\ UNCHANGED notBuild

\* Mutant of WriteStep: writer.write placed after the try block, so that a
\* failed item writes the example left over from the previous iteration.
WriteStep_StaleExample ==
  /\ pc_b = "write" /\ i_w < Len(futures)
  /\ Finished(i_w + 1)
  /\ container' = IF futures[i_w + 1].res.exc = NoError
                  THEN Append(container, futures[i_w + 1].res.example)
                  ELSE IF container = <<>> THEN container
                  ELSE Append(container, container[Len(container)])
  /\ i_w' = i_w + 1
  /\ UNCHANGED <<tfrecords_filename, file_pointers, labels, futures, yielded,
                 writer_closed, meta_files, pc_b>>
  /\ UNCHANGED notBuild

\* Lines 188-193: futures[i].result() blocks until the future finished and
\* re-raises its exception, which the except clause swallows; otherwise
\* the serialized example goes to the writer.
WriteStep ==
  /\ pc_b = "write" /\ i_w < Len(futures)
  /\ Finished(i_w + 1)
  /\ container' = IF futures[i_w + 1].res.exc = NoError
                  THEN Append(container, futures[i_w + 1].res.example)
                  ELSE container
  /\ i_w' = i_w + 1
  /\ UNCHANGED <<tfrecords_filename, file_pointers, labels, futures, yielded,
                 writer_closed, meta_files, pc_b>>
  /\ UNCHANGED notBuild

\* Line 188 exhausted; the with-block ends: executor.shutdown(wait=True).
ExecutorExit ==
  /\ pc_b = "write" /\ i_w = Len(futures)
  /\ \A i \in DOMAIN futures : Finished(i)
  /\ pc_b' = "savez"
  /\ UNCHANGED <<tfrecords_filename, file_pointers, labels, futures, yielded, i_w,
                 container, writer_closed, meta_files>>
  /\ UNCHANGED notBuild

\* Mutant of SaveMeta: the sidecar lists only the items whose encode
\* succeeded.
SaveMeta_Filtered ==
  LET good == {i \in DOMAIN futures : futures[i].res.exc = NoError}
      keep(list) == LET F[n \in 0..Len(list)] ==
                          IF n = 0 THEN <<>>
                          ELSE IF n \in good THEN Append(F[n - 1], list[n]) ELSE F[n - 1]
                    IN  F[Len(list)]
  IN  /\ pc_b = "savez"
      /\ meta_files' = Append(meta_files,
                              [path |-> tfrecord2metafilename(tfrecords_filename),
                               file_pointers |-> keep(file_pointers),
                               labels |-> keep(labels),
                               output_pointer |-> tfrecords_filename])
      /\ pc_b' = "return"
      /\ UNCHANGED <<tfrecords_filename, file_pointers, labels, futures, yielded, i_w,
                     container, writer_closed>>
      /\ UNCHANGED notBuild

\* Lines 195-196: np.savez(meta, file_pointers=, labels=, output_pointer=).
\* The writer opened at line 170 is not closed anywhere in the function.
SaveMeta ==
  /\ pc_b = "savez"
  /\ meta_files' = Append(meta_files,
                          [path |-> tfrecord2metafilename(tfrecords_filename),
                           file_pointers |-> file_pointers,
                           labels |-> labels,
                           output_pointer |-> tfrecords_filename])
  /\ pc_b' = "return"
  /\ UNCHANGED <<tfrecords_filename, file_pointers, labels, futures, yielded, i_w,
                 container, writer_closed>>
  /\ UNCHANGED notBuild

\* Lines 198-200: the function returns.  Its local `writer` is released
\* with the frame, and only then does the interpreter destroy the
\* TFRecordWriter, which flushes and closes the container.
Return ==
  /\ pc_b = "return"
  /\ writer_closed' = TRUE
  /\ pc_b' = "done"
  /\ UNCHANGED <<tfrecords_filename, file_pointers, labels, futures, yielded, i_w,
                 container, meta_files>>
  /\ UNCHANGED notBuild

MainThread ==
  Submit \/ SubmitEnd \/ AsCompletedEnd \/ WriteStep \/ ExecutorExit \/ SaveMeta \/ Return

BuildNext ==
  \/ MainThread
  \/ \E i \in 1..MaxItems : StartTask(i)
  \/ \E i \in 1..MaxItems : FinishTask(i)
  \/ \E i \in 1..MaxItems : AsCompletedYield(i)

SpecBuild == BuildInit /\ [][BuildNext]_vars

\* The main thread keeps running and the pool hands every submitted call
\* to a worker; whether a call ever returns is left open.
SpecBuildMainFair ==
  /\ SpecBuild
  /\ WF_vars(MainThread)
  /\ WF_vars(\E i \in 1..MaxItems : AsCompletedYield(i))
  /\ \A i \in 1..MaxItems : WF_vars(StartTask(i))

\* ------------------------------------------------------------------------
\* The record codec as a state machine: encode one file, decode the record
\* ------------------------------------------------------------------------
\* Pixel data of an image of n values: an arithmetic pattern reduced to the
\* sample depth (8 or 16 bit), so that neighbouring values differ.
Pattern(n, seed, step, depth) ==
  [k \in 1..n |-> IF depth = 8 THEN (seed + step * k) % 256
                  ELSE ((seed + step * k) * 300) % 65536]

\* The files encode may be pointed at: images of 1..MaxDim rows and
\* columns with 2, 3 or 4 channels or a single band (c = 0), of 8 or 16 bit
\* samples, and an unreadable file.
CodecContents ==
  { [ok |-> TRUE, h |-> h, w |-> w, c |-> c,
     data |-> Pattern(h * w * (IF c = 0 THEN 1 ELSE c), seed, step, depth)] :
      h \in 1..MaxDim, w \in 1..MaxDim, c \in {0, 2, 3, 4},
      seed \in {0, 250}, step \in {1, 100}, depth \in {8, 16} }
  \cup { Unreadable }

\* "a", "p_1.png" and the non-ASCII name "\xc3\xa9"
CodecPaths == { <<97>>, <<112, 95, 49, 46, 112, 110, 103>>, <<195, 169>> }

CodecInit ==
  /\ PrepIdle /\ BuildIdle /\ ReadIdle
  /\ c_content \in CodecContents
  /\ c_path \in CodecPaths
  /\ c_label \in 0..3
  /\ c_dims \in { <<dh, dw, 3>> : dh \in 1..MaxDim, dw \in 1..MaxDim }
  /\ c_result = [exc |-> "unset", example |-> NoExample]
  /\ c_decoded = NoDecoded
  /\ pc_c = "encode"

\* encode(img_path, target_label), lines 75-94
EncodeStep ==
  /\ pc_c = "encode"
  /\ c_result' = encode(c_content, c_path, c_label)
  /\ pc_c' = IF c_result'.exc = NoError THEN "encoded" ELSE "raised"
  /\ UNCHANGED <<c_content, c_path, c_label, c_dims, c_decoded>>
  /\ UNCHANGED notCodec

\* The record is written and read back; lines 223-238 decode it with the
\* declared img_dims.
DecodeStep ==
  /\ pc_c = "encoded"
  /\ c_decoded' = decode(c_result.example, c_dims)
  /\ pc_c' = IF c_decoded'.exc = NoError THEN "decoded" ELSE "decode_failed"
  /\ UNCHANGED <<c_content, c_path, c_label, c_dims, c_result>>
  /\ UNCHANGED notCodec

CodecNext == EncodeStep \/ DecodeStep

SpecCodec == CodecInit /\ [][CodecNext]_vars

\* ------------------------------------------------------------------------
\* tfrecord.py : read_and_decode, the per-example and per-batch stages
\* ------------------------------------------------------------------------
\* A tensor is followed by its shape and by the list of operations applied
\* to it so far; pixel values are not followed through the random
\* transforms.
Applied(t, name) == [t EXCEPT !.stages = Append(@, name)]

\* Lines 240-244: tf.random_crop needs every dimension of the image to be
\* at least the crop size; resize_image_with_crop_or_pad crops or pads
\* height and width and keeps the channels.
Crop(t, dic, mdims) ==
  IF dic["rand_crop"]
  THEN IF \E d \in 1..3 : t.shape[d] < mdims[d]
       THEN [t EXCEPT !.exc = "InvalidArgumentError: random_crop"]
       ELSE Applied([t EXCEPT !.shape = mdims], "random_crop")
  ELSE Applied([t EXCEPT !.shape = <<mdims[1], mdims[2], t.shape[3]>>], "crop_or_pad")

\* Lines 245-246
FlipLeftRight(t, dic) ==
  IF dic["rand_flip_left_right"] THEN Applied(t, "random_flip_left_right") ELSE t

\* Lines 248-249
FlipUpDown(t, dic) ==
  IF dic["rand_flip_top_bottom"] THEN Applied(t, "random_flip_up_down") ELSE t

\* Lines 251-255
Rotate(t, dic) ==
  IF dic["rand_rotate"] THEN Applied(t, "rotate") ELSE t

\* Mutant of PerExample: the rotation is applied before the flips.
PerExample_RotateFirst(t, dic, mdims) ==
  LET cropped == Crop(t, dic, mdims)
  IN  IF cropped.exc # NoError THEN cropped
      ELSE FlipUpDown(FlipLeftRight(Rotate(cropped, dic), dic), dic)

\* Lines 240-255 on one decoded example
PerExample(t, dic, mdims) ==
  LET cropped == Crop(t, dic, mdims)
  IN  IF cropped.exc # NoError THEN cropped
      ELSE Rotate(FlipUpDown(FlipLeftRight(cropped, dic), dic), dic)

\* Lines 220-255: read one record, decode it, run the per-example stages.
ExampleOf(record, idims, dic, mdims) ==
  LET d == decode(record, idims)
  IN  IF d.exc # NoError
      THEN [exc |-> d.exc, shape |-> <<>>, stages |-> <<>>, t_l |-> 0, f_p |-> <<>>]
      ELSE PerExample([exc |-> NoError, shape |-> d.shape, stages |-> <<>>,
                       t_l |-> d.target_label, f_p |-> d.file_path], dic, mdims)

\* shuffle_batch(..., min_after_dequeue=1000, capacity=1000 + 3 * size_of_batch)
MinAfterDequeue == 1000
ShuffleCapacity(batch) == MinAfterDequeue + 3 * batch
\* batch(..., capacity=5000)
BatchCapacity == 5000

\* Lines 257-268: the three tensors of a batch made of the examples xs.
\* Examples of one run share shape and stages.
Batched(xs) ==
  [exc |-> NoError,
   img |-> [shape |-> <<Len(xs)>> \o xs[1].shape,
            stages |-> Append(xs[1].stages, "batch")],
   t_l |-> [n \in DOMAIN xs |-> xs[n].t_l],
   f_p |-> [n \in DOMAIN xs |-> xs[n].f_p]]

Product(shape) ==
  LET F[n \in 0..Len(shape)] == IF n = 0 THEN 1 ELSE F[n - 1] * shape[n]
  IN  F[Len(shape)]

\* Lines 270-301: the displacement field is tiled size_of_batch times and
\* img is reshaped to [size_of_batch] + model_dims before the warp; the
\* reshape fails unless img holds exactly that many values.
Warp(b, dic, batch, mdims) ==
  IF dic["warp"]
  THEN IF Product(b.img.shape) # batch * mdims[1] * mdims[2] * mdims[3]
       THEN [b EXCEPT !.exc = "InvalidArgumentError: reshape to size_of_batch"]
       ELSE [b EXCEPT !.img = Applied([b.img EXCEPT !.shape = <<batch>> \o mdims],
                                      "dense_image_warp")]
  ELSE b

\* Lines 303-304: rgb_to_grayscale needs 3 channels and leaves 1.
Grayscale(b, dic) ==
  IF dic["grayscale"] /\ b.exc = NoError
  THEN IF b.img.shape[4] # 3
       THEN [b EXCEPT !.exc = "InvalidArgumentError: rgb_to_grayscale"]
       ELSE [b EXCEPT !.img = Applied([b.img EXCEPT !.shape[4] = 1], "rgb_to_grayscale")]
  ELSE b

\* Lines 257-307 on the examples xs drawn from the queue: what
\* read_and_decode's outputs evaluate to.
BatchOf(xs, dic, batch, mdims) == Grayscale(Warp(Batched(xs), dic, batch, mdims), dic)

\* normalize(image), lines 37-44, on one pixel value: the rational
\* (image - 153.85) / 25.38.  read_and_decode does not call it.
normalize(image) == <<100 * image - 15385, 2538>>

\* ------------------------------------------------------------------------
\* read_and_decode as a state machine: a reader fills the batching queue,
\* the consumer evaluates (img, t_l, f_p) once per batch
\* ------------------------------------------------------------------------
\* Record n of the container: a 1 x 2 RGB image written by encode under
\* the path "a<n>" with label n mod 4.
RecordNo(n) ==
  encode([ok |-> TRUE, h |-> 1, w |-> 2, c |-> 3, data |-> <<10, 20, 30, 40, 50, n>>],
         <<97, 48 + n>>, n % 4).example

\* The sequences of k distinct positions of a queue of n examples.
Picks(n, k) == { s \in SeqsOfLen(1..n, k) : Cardinality(Range(s)) = k }

ReadInit ==
  /\ PrepIdle /\ BuildIdle /\ CodecIdle
  /\ \E n \in 0..MaxRecords : r_records = [k \in 1..n |-> RecordNo(k)]
  /\ r_pos = 0
  /\ augmentations_dic \in [AugmentationKeys -> BOOLEAN]
  /\ shuffle \in BOOLEAN
  /\ size_of_batch \in 1..MaxBatch
  /\ img_dims \in { <<1, 2, 3>>, <<1, 1, 3>> }
  /\ model_dims \in { <<1, 1, 3>>, <<2, 2, 3>> }
  /\ queue = <<>>
  /\ queue_closed = FALSE
  /\ returned = <<>>
  /\ pc_r = "run"
  /\ err_r = NoError

\* The reader thread: one record through lines 220-255 into the queue.
ReadExample ==
  /\ pc_r = "run" /\ r_pos < Len(r_records)
  /\ Len(queue) < (IF shuffle THEN ShuffleCapacity(size_of_batch) ELSE BatchCapacity)
  /\ LET x == ExampleOf(r_records[r_pos + 1], img_dims, augmentations_dic, model_dims)
     IN  IF x.exc # NoError
         THEN /\ pc_r' = "raised" /\ err_r' = x.exc
              /\ UNCHANGED <<queue, r_pos>>
         ELSE /\ queue' = Append(queue, x)
              /\ r_pos' = r_pos + 1
              /\ UNCHANGED <<pc_r, err_r>>
  /\ UNCHANGED <<r_records, augmentations_dic, shuffle, size_of_batch, img_dims,
                 model_dims, queue_closed, returned>>
  /\ UNCHANGED notRead

\* The reader thread finds the input exhausted and closes the queue.
CloseQueue ==
  /\ pc_r = "run" /\ r_pos = Len(r_records) /\ ~queue_closed
  /\ queue_closed' = TRUE
  /\ UNCHANGED <<r_records, r_pos, augmentations_dic, shuffle, size_of_batch, img_dims,
                 model_dims, queue, returned, pc_r, err_r>>
  /\ UNCHANGED notRead

\* The positions one evaluation of the batch takes from the queue.
\* tf.train.batch (allow_smaller_final_batch=True) takes the first
\* size_of_batch examples, or all that are left once the queue is closed;
\* tf.train.shuffle_batch takes size_of_batch random examples once
\* min_after_dequeue more are queued or the queue is closed.
Draws ==
  IF shuffle
  THEN IF Len(queue) >= MinAfterDequeue + size_of_batch
          \/ (queue_closed /\ Len(queue) >= size_of_batch)
       THEN Picks(Len(queue), size_of_batch)
       ELSE {}
  ELSE IF Len(queue) >= size_of_batch
       THEN { [n \in 1..size_of_batch |-> n] }
       ELSE IF queue_closed /\ Len(queue) >= 1
       THEN { [n \in 1..Len(queue) |-> n] }
       ELSE {}

\* The queue without the positions in taken.
Remaining(q, taken) ==
  LET F[n \in 0..Len(q)] == IF n = 0 THEN <<>>
                            ELSE IF n \in taken THEN F[n - 1] ELSE Append(F[n - 1], q[n])
  IN  F[Len(q)]

\* The consumer evaluates (img, t_l, f_p): a batch is drawn and run through
\* lines 270-304; an error of a stage ends the run without a batch.
RunBatch ==
  /\ pc_r = "run"
  /\ \E draw \in Draws :
       LET xs == [n \in DOMAIN draw |-> queue[draw[n]]]
           b  == BatchOf(xs, augmentations_dic, size_of_batch, model_dims)
       IN  /\ queue' = Remaining(queue, Range(draw))
           /\ IF b.exc # NoError
              THEN /\ pc_r' = "raised" /\ err_r' = b.exc
                   /\ UNCHANGED returned
              ELSE /\ returned' = Append(returned, b)
                   /\ UNCHANGED <<pc_r, err_r>>
  /\ UNCHANGED <<r_records, r_pos, augmentations_dic, shuffle, size_of_batch, img_dims,
                 model_dims, queue_closed>>
  /\ UNCHANGED notRead

\* The consumer finds the queue closed with too few examples left for
\* another batch: OutOfRangeError ends the input.
EndOfInput ==
  /\ pc_r = "run" /\ queue_closed /\ Draws = {}
  /\ pc_r' = "end" /\ err_r' = "OutOfRangeError"
  /\ UNCHANGED <<r_records, r_pos, augmentations_dic, shuffle, size_of_batch, img_dims,
                 model_dims, queue, queue_closed, returned>>
  /\ UNCHANGED notRead

ReadNext == ReadExample \/ CloseQueue \/ RunBatch \/ EndOfInput

SpecRead == ReadInit /\ [][ReadNext]_vars

\* ------------------------------------------------------------------------
\* Properties of create_tf_record
\* ------------------------------------------------------------------------
\* The encode call of input i failed.
Failed(i) == futures[i].res.exc # NoError

\* Indices of the inputs among the first n whose encode call succeeded, in
\* input order.
Successes(n) ==
  LET F[k \in 0..n] == IF k = 0 THEN <<>>
                       ELSE IF Failed(k) THEN F[k - 1] ELSE Append(F[k - 1], k)
  IN  F[n]

\* C1: whatever the order in which the workers complete, after the writing
\* loop has handled i_w inputs the container holds one record per
\* successful input among them, in input order, each carrying that input's
\* path and label; at the end that is N - K records for K failed calls.
C1_ContainerIsSuccessesInOrder ==
  pc_b \in {"write", "savez", "return", "done"} =>
    LET ok == Successes(i_w)
    IN  /\ Len(container) = Len(ok)
        /\ \A k \in 1..Len(ok) :
             /\ Feature(container[k], "file_path") = file_pointers[ok[k]]
             /\ Feature(container[k], "target_label") = labels[ok[k]]
             /\ container[k] = futures[ok[k]].res.example
        /\ pc_b # "write" =>
             /\ i_w = Len(file_pointers)
             /\ Len(container) =
                  Len(file_pointers) - Cardinality({i \in DOMAIN futures : Failed(i)})

\* C1 witness: a build of three inputs of which the second failed is done,
\* the workers completed in an order other than the input order, and the
\* container holds the first and the third input.
C1_Witness ==
  /\ pc_b = "done" /\ Len(file_pointers) = 3
  /\ Failed(2) /\ ~Failed(1) /\ ~Failed(3)
  /\ yielded[1] = 3
  /\ Len(container) = 2

\* C2: once create_tf_record is done there is one sidecar; it holds the
\* whole input path list and label list in input order, failed items
\* included, and the container's path; it is as long as the container only
\* if no encode call failed.
C2_SidecarHoldsAllInputs ==
  pc_b \in {"return", "done"} =>
    /\ Len(meta_files) = 1
    /\ meta_files[1].file_pointers = file_pointers
    /\ meta_files[1].labels = labels
    /\ Len(meta_files[1].file_pointers) = Len(futures)
    /\ Len(meta_files[1].labels) = Len(futures)
    /\ meta_files[1].output_pointer = tfrecords_filename
    /\ (Len(meta_files[1].file_pointers) = Len(container))
         <=> (\A i \in DOMAIN futures : ~Failed(i))

\* C2 witness: the sidecar of a finished build lists three inputs while the
\* container holds two records.
C2_Witness ==
  /\ pc_b = "done" /\ Len(meta_files) = 1
  /\ Len(meta_files[1].file_pointers) = 3 /\ Len(container) = 2

\* C10 as claimed: every task is submitted before a result is collected,
\* nothing is written before every task has finished, the sidecar is
\* written once, after the last record and after the container has been
\* finalized, and an unfinished task keeps records and sidecar unwritten.
C10_StrictPhases ==
  /\ (yielded # <<>> \/ i_w > 0) => Len(futures) = Len(file_pointers)
  /\ (i_w > 0 \/ container # <<>>) => \A i \in DOMAIN futures : Finished(i)
  /\ Len(meta_files) <= 1
  /\ pc_b = "done" => Len(meta_files) = 1
  /\ meta_files # <<>> => (i_w = Len(file_pointers) /\ writer_closed)
  /\ (\E i \in 1..Len(file_pointers) : ~Finished(i)) =>
       (container = <<>> /\ meta_files = <<>>)

\* C10, liveness: if every submitted call eventually returns or raises,
\* create_tf_record eventually completes (checked under SpecBuildMainFair).
C10_EventuallyDone ==
  (\A i \in 1..MaxItems : <>(i > Len(file_pointers) \/ Finished(i))) => <>(pc_b = "done")

\* C10, the part the code keeps: the same phases, with the sidecar written
\* after the last writer.write call but while the writer is still open.
C10_PhasesWithoutFinalize ==
  /\ (yielded # <<>> \/ i_w > 0) => Len(futures) = Len(file_pointers)
  /\ (i_w > 0 \/ container # <<>>) => \A i \in DOMAIN futures : Finished(i)
  /\ Len(meta_files) <= 1
  /\ pc_b = "done" => Len(meta_files) = 1
  /\ meta_files # <<>> => i_w = Len(file_pointers)
  /\ (\E i \in 1..Len(file_pointers) : ~Finished(i)) =>
       (container = <<>> /\ meta_files = <<>>)

\* ------------------------------------------------------------------------
\* Properties of the record codec
\* ------------------------------------------------------------------------
\* A valid input of encode: a readable image with at least 3 channels and
\* 8-bit samples, and a label of 0..3.
ValidPair ==
  /\ c_content.ok /\ c_content.c >= 3
  /\ \A n \in DOMAIN c_content.data : c_content.data[n] \in 0..255
  /\ c_label \in 0..3

C3_MismatchReached ==
  /\ ValidPair /\ pc_c = "decode_failed"

\* ------------------------------------------------------------------------
\* Properties of read_and_decode
\* ------------------------------------------------------------------------
\* The list l without the entries whose position is not in keep.
Kept(l, keep) ==
  LET F[n \in 0..Len(l)] == IF n = 0 THEN <<>>
                            ELSE IF n \in keep THEN Append(F[n - 1], l[n]) ELSE F[n - 1]
  IN  F[Len(l)]

\* The stages of the fixed order that a configuration enables: the crop
\* (random or central), the two flips, the rotation, batching, the elastic
\* warp, the grayscale conversion.
EnabledStages(dic) ==
  Kept(<< IF dic["rand_crop"] THEN "random_crop" ELSE "crop_or_pad",
          "random_flip_left_right", "random_flip_up_down", "rotate", "batch",
          "dense_image_warp", "rgb_to_grayscale" >>,
       {1, 5} \cup (IF dic["rand_flip_left_right"] THEN {2} ELSE {})
              \cup (IF dic["rand_flip_top_bottom"] THEN {3} ELSE {})
              \cup (IF dic["rand_rotate"] THEN {4} ELSE {})
              \cup (IF dic["warp"] THEN {6} ELSE {})
              \cup (IF dic["grayscale"] THEN {7} ELSE {}))

C9_BatchDimensionAligned ==
  /\ err_r # "InvalidArgumentError: reshape to size_of_batch"
  /\ \A n \in DOMAIN returned :
       /\ returned[n].img.shape[1] = Len(returned[n].t_l)
       /\ Len(returned[n].t_l) = Len(returned[n].f_p)

\* C9, the part the code keeps: the batches that are returned are aligned,
\* and without the warp the final batch of an unshuffled run may be short.
C9_ReturnedBatchesAligned ==
  \A n \in DOMAIN returned :
    /\ returned[n].img.shape[1] = Len(returned[n].t_l)
    /\ Len(returned[n].t_l) = Len(returned[n].f_p)
    /\ Len(returned[n].t_l) <= size_of_batch
    /\ (shuffle \/ augmentations_dic["warp"]) => Len(returned[n].t_l) = size_of_batch

\* A short final batch has been returned (unshuffled, no warp).
C9_ShortBatchReturned ==
  \E n \in DOMAIN returned : Len(returned[n].t_l) < size_of_batch

\* ------------------------------------------------------------------------
\* Properties of prepare_tfrecords.py
\* ------------------------------------------------------------------------
\* The class key as the specification words it: both leading tokens of the
\* base name lower-cased, joined by an underscore.  Only meaningful for a
\* base name with at least two tokens.
KeyOf(img) ==
  LET t == Split(Last(Split(img, 47)), 95)
  IN  IF Len(t) < 2 THEN <<>> ELSE Lower(t[1]) \o <<95>> \o Lower(t[2])

\* The label the fixed table gives a class key.
TableLabel(key) ==
  CASE key = gleason_5 -> 3
    [] key = gleason_4 -> 2
    [] key = gleason_3 -> 1
    [] OTHER -> 0

\* The table's label of each listed file, -1 for a name without class key.
TableLabels == [i \in 1..Len(files) |->
                  LET key == KeyOf(files[i])
                  IN  IF key = <<>> THEN -1 ELSE TableLabel(key)]

\* Number of the first n entries of a list of labels that equal l.
CountIn(ls, l, n) == Cardinality({i \in 1..n : ls[i] = l})

\* C4: every file processed so far whose two leading tokens form gleason_5,
\* gleason_4 or gleason_3 (case-insensitively) got label 3, 2 or 1: in
\* build_tfrecords as the appended label, in calculate_class_ratios as the
\* tally of that label.
C4_RecognizedKeysLabelled ==
  LET tl == TableLabels
  IN  /\ fn = "build_tfrecords" =>
           /\ Len(target_labels) = idx
           /\ \A i \in 1..idx : tl[i] \in 1..3 => target_labels[i] = tl[i]
      /\ fn = "calculate_class_ratios" =>
           \A l \in 1..3 : targe_label_dic[l] = CountIn(tl, l, idx)

\* C4 witness: a file named with upper-case letters (GLEASON_4_b) has been
\* labelled 2 by build_tfrecords, or tallied under 2 by the ratio loop.
C4_Witness ==
  LET upper4 == DirPrefix \o <<71, 76, 69, 65, 83, 79, 78, 95, 52, 95, 98>> \o PngExt
  IN  \/ /\ fn = "build_tfrecords"
         /\ \E i \in 1..idx : files[i] = upper4 /\ target_labels[i] = 2
      \/ /\ fn = "calculate_class_ratios"
         /\ \E i \in 1..idx : files[i] = upper4
         /\ targe_label_dic[2] >= 1

\* C5 as claimed: the labelling code never raises, whatever the file name.
C5_ResolverNeverRaises == err_p # "IndexError"

\* C5, the part the code keeps: a file with at least two tokens whose key is
\* not recognized gets label 0, and every label produced is in 0..3.
C5_UnrecognizedIsBackground ==
  LET tl == TableLabels
  IN  /\ \A i \in 1..Len(target_labels) :
           /\ target_labels[i] \in 0..3
           /\ tl[i] = 0 => target_labels[i] = 0
      /\ fn = "calculate_class_ratios" => targe_label_dic[0] = CountIn(tl, 0, idx)

\* The label distribution of the split is non-degenerate: every file name
\* has a class key and each of the four labels occurs.
NonDegenerateLabels(tl) ==
  /\ \A i \in DOMAIN tl : tl[i] # -1
  /\ \A l \in 0..3 : \E i \in DOMAIN tl : tl[i] = l

\* C6: for a non-degenerate distribution calculate_class_ratios does not
\* raise, and the vector it computes (and later saves) has 4 entries in
\* label order, each non-negative, summing to 1, with weight * count equal
\* across the classes; equal counts give 1/4 each.
C6_WeightsNormalisedInverse ==
  LET tl    == TableLabels
      n     == Len(files)
      count == [l \in 0..3 |-> CountIn(tl, l, n)]
  IN  (fn = "calculate_class_ratios" /\ NonDegenerateLabels(tl)) =>
        /\ pc_p # "raised"
        /\ pc_p \in {"save", "done"} =>
             /\ Len(class_weights) = 4
             /\ \A k \in 1..4 : class_weights[k][1] >= 0 /\ class_weights[k][2] > 0
             /\ REq(RSum(class_weights), RInt(1))
             /\ \A j, k \in 1..4 :
                  REq(<<class_weights[j][1] * count[j - 1], class_weights[j][2]>>,
                      <<class_weights[k][1] * count[k - 1], class_weights[k][2]>>)
             /\ (\A j, k \in 0..3 : count[j] = count[k])
                  => \A k \in 1..4 : REq(class_weights[k], <<1, 4>>)
        /\ pc_p = "done" => saved = class_weights

\* C6 witness: the weights of a split with unequal class counts (two files
\* of one class, one of each other) have been saved.
C6_Witness ==
  LET tl == TableLabels
  IN  /\ fn = "calculate_class_ratios" /\ pc_p = "done" /\ saved # None
      /\ NonDegenerateLabels(tl)
      /\ \E l \in 0..3 : CountIn(tl, l, Len(files)) = 2

\* A class of the split has no file, and every file name has a class key.
DegenerateLabels(tl) ==
  /\ \A i \in DOMAIN tl : tl[i] # -1
  /\ \E l \in 0..3 : \A i \in DOMAIN tl : tl[i] # l

\* C7 as claimed: with a class that never occurs, the function ends with a
\* ConfigurationError, no weights and no class-weight file.
C7_ZeroClassConfigurationError ==
  (fn = "calculate_class_ratios" /\ pc_p # "loop" /\ DegenerateLabels(TableLabels)) =>
    /\ pc_p = "raised" /\ err_p = "ConfigurationError"
    /\ class_weights = None /\ saved = None

\* C7, the part the code keeps: a class without occurrences ends the
\* function with an exception before weights exist or a file is written.
C7_ZeroClassRaisesBeforeSave ==
  (fn = "calculate_class_ratios" /\ pc_p # "loop" /\ DegenerateLabels(TableLabels)) =>
    /\ pc_p = "raised" /\ err_p = "ZeroDivisionError"
    /\ class_weights = None /\ saved = None

====
